---------------------------- MODULE Spec2Model ----------------------------
(* Ranked-retrieval search engine: index.py (FileProcess) builds an        *)
(* inverted index term -> postings [id, position, line]; search.py         *)
(* (SearchEngine) loads it and ranks documents by coverage, proximity and  *)
(* ordered pairs.                                                          *)
(*                                                                         *)
(* A document's text is a sequence of items: words (one raw token each,    *)
(* separated by blanks in the file), LF ("\n") and FF ("\x0c").            *)
(* A file name is a sequence of characters.  Scores are exact rationals    *)
(* [n, d]; float("inf") is the rational with d = 0.                        *)
EXTENDS Integers, Sequences, FiniteSets, TLC

VARIABLES
    corpus,       \* the folder of documents: file name -> [isfile, text]
    seedA,        \* string-hash seed of the first index.py process
    seedB,        \* string-hash seed of the second index.py process
    indexA,       \* FileProcess of run A after build_index: [built, index, num_file]
    indexB,       \* FileProcess of run B after build_index
    engine,       \* SearchEngine: [loaded, index, seed]
    query,        \* the last line given to search(): [preview, tokens]
    res,          \* what the last search() did (see NoResult)
    sdIn,         \* shortest_distance call: [search_term, position]
    sdOut         \* shortest_distance result (see NoSD)

vars == <<corpus, seedA, seedB, indexA, indexB, engine, query, res, sdIn, sdOut>>

-----------------------------------------------------------------------------
(* Bounds *)

\* items (words and line ends) in all the files of a folder, when searching
MaxCorpusLen == 3
\* the same, when only building
MaxBuildLen == 4
\* words in a query line
MaxQueryLen == 2
\* positions of a document given to shortest_distance alone
MaxPos == 4

-----------------------------------------------------------------------------
(* Sequences *)

RECURSIVE Concat(_)
Concat(ss) == IF ss = <<>> THEN <<>> ELSE Head(ss) \o Concat(Tail(ss))

SeqsUpTo(S, n) == UNION {[1..k -> S] : k \in 0..n}

Range(s) == {s[i] : i \in 1..Len(s)}

\* list(dict.fromkeys(terms)): first occurrences, order kept
RECURSIVE DedupKeepOrder(_)
DedupKeepOrder(s) ==
    IF s = <<>> THEN <<>>
    ELSE LET r == DedupKeepOrder(SubSeq(s, 1, Len(s) - 1))
             x == s[Len(s)]
         IN  IF x \in Range(r) THEN r ELSE Append(r, x)

\* sorted(c) for a tuple of integers
RECURSIVE SortInts(_)
SortInts(s) ==
    IF s = <<>> THEN <<>>
    ELSE LET m == CHOOSE i \in 1..Len(s) : \A j \in 1..Len(s) : s[i] <= s[j]
         IN  <<s[m]>> \o SortInts(SubSeq(s, 1, m - 1) \o SubSeq(s, m + 1, Len(s)))

RECURSIVE SumSeq(_)
SumSeq(s) == IF s = <<>> THEN 0 ELSE Head(s) + SumSeq(Tail(s))

-----------------------------------------------------------------------------
(* Strings: file names as character sequences *)

Digits == {"0", "1", "2", "3", "4", "5", "6", "7", "8", "9"}

\* code points, the order str comparison uses
CharCode ==
    "0" :> 48 @@ "1" :> 49 @@ "2" :> 50 @@ "3" :> 51 @@ "4" :> 52 @@
    "5" :> 53 @@ "6" :> 54 @@ "7" :> 55 @@ "8" :> 56 @@ "9" :> 57 @@
    "c" :> 99 @@ "d" :> 100 @@ "o" :> 111

\* a < b for str
RECURSIVE StrLess(_, _)
StrLess(a, b) ==
    IF b = <<>> THEN FALSE
    ELSE IF a = <<>> THEN TRUE
    ELSE IF CharCode[Head(a)] # CharCode[Head(b)]
         THEN CharCode[Head(a)] < CharCode[Head(b)]
         ELSE StrLess(Tail(a), Tail(b))

\* sorted(names) for a set of str
RECURSIVE SortedNames(_)
SortedNames(S) ==
    IF S = {} THEN <<>>
    ELSE LET m == CHOOSE x \in S : \A y \in S \ {x} : StrLess(x, y)
         IN  <<m>> \o SortedNames(S \ {m})

\* int(s) succeeds (within the alphabet of CharCode: decimal digits only)
IntParses(s) == s # <<>> /\ \A i \in 1..Len(s) : s[i] \in Digits

\* int(s) for a decimal literal
RECURSIVE IntOf(_)
IntOf(s) ==
    IF s = <<>> THEN 0
    ELSE 10 * IntOf(SubSeq(s, 1, Len(s) - 1)) + (CharCode[s[Len(s)]] - 48)

-----------------------------------------------------------------------------
(* Tokenizer / normalizer (the same code in index.py and search.py) *)

LF == "LF"
FF == "FF"

\* every term the vocabulary can produce, in a fixed reference order
TermSeq == <<"42", "brown", "fox", "leaf", "leave", "quick", "the", "us", "x-ray">>

TermRank(t) == CHOOSE i \in 1..Len(TermSeq) : TermSeq[i] = t

\* a process's iteration order over a set of str depends on its hash seed
HashSeeds == {0, 1}

\* WordNetLemmatizer.lemmatize(word, pos); pos "n" is the default
Lemmatize(word, pos) ==
    IF word = "leaves" THEN (IF pos = "v" THEN "leave" ELSE "leaf") ELSE word

\* find_root: the set of the three lemmatizations
find_root(word) ==
    {Lemmatize(word, "n"), Lemmatize(word, "n"), Lemmatize(word, "v")}

\* list(a set of str) in a process with the given hash seed
RECURSIVE ListOfSet(_, _)
ListOfSet(S, seed) ==
    IF S = {} THEN <<>>
    ELSE LET x == CHOOSE y \in S : \A z \in S :
                      IF seed % 2 = 0 THEN TermRank(y) <= TermRank(z)
                                      ELSE TermRank(y) >= TermRank(z)
         IN  <<x>> \o ListOfSet(S \ {x}, seed)

\* token.lower(), and the removal of "'s" and "s'", which no token of the
\* vocabulary holds
Lower(token) == IF token = "The" THEN "the" ELSE token

\* re.fullmatch(r"[a-z]\.[a-z]\.", token)
IsAbbreviation(token) == token = "u.s."

RemoveDots(token) == IF token = "u.s." THEN "us" ELSE token

IsDigit(token) == token = "42"

HasHyphen(token) == token \in {"x-ray", "fox-leaves"}

\* token.split("-")
SplitHyphen(token) ==
    IF token = "x-ray" THEN <<"x", "ray">>
    ELSE IF token = "fox-leaves" THEN <<"fox", "leaves">>
    ELSE <<token>>

StrLen(token) == IF token = "x" THEN 1 ELSE 3

IsAlnum(token) == token \notin {".", ",", ">", "u.s.", "x-ray", "fox-leaves"}

\* normalize_token
normalize_token(token, seed) ==
    LET t == Lower(token) IN
    IF IsAbbreviation(t) THEN <<RemoveDots(t)>>
    ELSE IF IsDigit(t) THEN <<t>>
    ELSE IF HasHyphen(t) THEN
        LET parts == SplitHyphen(t) IN
        IF StrLen(parts[1]) < 3 THEN ListOfSet(find_root(t), seed)
        ELSE Concat([i \in 1..Len(parts) |->
                 IF IsAlnum(parts[i]) THEN ListOfSet(find_root(parts[i]), seed)
                 ELSE <<>>])
    ELSE IF IsAlnum(t) THEN ListOfSet(find_root(t), seed)
    ELSE <<>>

\* tokenize_sentence over a line / the term list of preprocess_sentence:
\* the normalized terms of the words, in order
tokenize_sentence(words, seed) ==
    Concat([i \in 1..Len(words) |-> normalize_token(words[i], seed)])

-----------------------------------------------------------------------------
(* Lines of a document *)

\* str.splitlines(): LF and FF both end a line; line ends are dropped
RECURSIVE SplitFrom(_, _)
SplitFrom(text, cur) ==
    IF text = <<>> THEN (IF cur = <<>> THEN <<>> ELSE <<cur>>)
    ELSE IF Head(text) \in {LF, FF} THEN <<cur>> \o SplitFrom(Tail(text), <<>>)
    ELSE SplitFrom(Tail(text), Append(cur, Head(text)))

splitlines(text) == SplitFrom(text, <<>>)

\* file.readlines(): only LF ends a line; the LF is kept
RECURSIVE ReadFrom(_, _)
ReadFrom(text, cur) ==
    IF text = <<>> THEN (IF cur = <<>> THEN <<>> ELSE <<cur>>)
    ELSE IF Head(text) = LF THEN <<Append(cur, LF)>> \o ReadFrom(Tail(text), <<>>)
    ELSE ReadFrom(Tail(text), Append(cur, Head(text)))

readlines(text) == ReadFrom(text, <<>>)

-----------------------------------------------------------------------------
(* index.py: FileProcess *)

\* The inverted index is a function over Terms; a term is a key of the dict
\* exactly when its postings list is not empty (a defaultdict(list) creates
\* the key on the first append, and nothing removes a posting).
Terms == Range(TermSeq)

EmptyIndex == [t \in Terms |-> <<>>]

\* t in self.inverted_index
HasKey(idx, t) == idx[t] # <<>>

Keys(idx) == {t \in Terms : HasKey(idx, t)}

\* self.inverted_index[t].append([id, position, n])
AppendPosting(idx, t, p) == [idx EXCEPT ![t] = Append(@, p)]

\* position += 1
NextPositionStuck(position) == position

NextPosition(position) == position + 1

\* the (term, line number) pairs file_index emits, in order
RECURSIVE Emitted(_, _, _)
Emitted(lines, n, seed) ==
    IF n >= Len(lines) THEN <<>>
    ELSE LET ts == tokenize_sentence(lines[n + 1], seed)
         IN  [i \in 1..Len(ts) |-> <<ts[i], n>>] \o Emitted(lines, n + 1, seed)

RECURSIVE AddPostings(_, _, _, _)
AddPostings(idx, id, emits, position) ==
    IF emits = <<>> THEN idx
    ELSE AddPostings(AppendPosting(idx, Head(emits)[1], <<id, position, Head(emits)[2]>>),
                     id, Tail(emits), NextPosition(position))

\* file_index
file_index(idx, id, text, seed) ==
    AddPostings(idx, id, Emitted(splitlines(text), 0, seed), 0)

\* sorted(os.listdir(file_folder))
ListedReversed(folder) ==
    LET s == SortedNames(DOMAIN folder) IN [i \in 1..Len(s) |-> s[Len(s) + 1 - i]]

Listed(folder) == SortedNames(DOMAIN folder)

RECURSIVE BuildFrom(_, _, _, _)
BuildFrom(fp, folder, names, seed) ==
    IF names = <<>> THEN fp
    ELSE LET name == Head(names) IN
         IF ~folder[name].isfile THEN BuildFrom(fp, folder, Tail(names), seed)
         ELSE BuildFrom([built |-> TRUE,
                         index |-> file_index(fp.index, name, folder[name].text, seed),
                         num_file |-> fp.num_file + 1],
                        folder, Tail(names), seed)

NewFileProcess == [built |-> FALSE, index |-> EmptyIndex, num_file |-> 0]

\* build_index: the saved index (and the copies of the files under doc/)
build_index(folder, seed) ==
    [BuildFrom(NewFileProcess, folder, Listed(folder), seed) EXCEPT !.built = TRUE]

-----------------------------------------------------------------------------
(* Rationals [n, d] with d >= 0; d = 0 is float("inf") *)

Rat(n, d) == [n |-> n, d |-> d]

Inf == Rat(1, 0)

IsInf(a) == a.d = 0

RLess(a, b) ==
    IF IsInf(a) THEN FALSE
    ELSE IF IsInf(b) THEN TRUE
    ELSE a.n * b.d < b.n * a.d

REq(a, b) ==
    IF IsInf(a) \/ IsInf(b) THEN IsInf(a) /\ IsInf(b)
    ELSE a.n * b.d = b.n * a.d

RAdd(a, b) ==
    IF IsInf(a) \/ IsInf(b) THEN Inf ELSE Rat(a.n * b.d + b.n * a.d, a.d * b.d)

RMul(a, b) ==
    IF IsInf(a) \/ IsInf(b) THEN Inf ELSE Rat(a.n * b.n, a.d * b.d)

\* a / k for an integer k > 0
RDivInt(a, k) == IF IsInf(a) THEN Inf ELSE Rat(a.n, a.d * k)

\* 1 / a for a # 0 (1 / inf is 0.0)
RInv(a) ==
    IF IsInf(a) THEN Rat(0, 1)
    ELSE IF a.n < 0 THEN Rat(-a.d, -a.n) ELSE Rat(a.d, a.n)

-----------------------------------------------------------------------------
(* search.py: SearchEngine.shortest_distance *)

\* itertools.product(*lists): the last list varies fastest
RECURSIVE Product(_)
Product(lists) ==
    IF lists = <<>> THEN << <<>> >>
    ELSE LET h == Head(lists)
             rest == Product(Tail(lists))
         IN  Concat([i \in 1..Len(h) |-> [j \in 1..Len(rest) |-> <<h[i]>> \o rest[j]]])

\* dict(zip(match_word, c))
ZipDict(match_word, c) ==
    [t \in Range(match_word) |->
        c[CHOOSE i \in 1..Len(match_word) :
            match_word[i] = t /\ \A j \in (i + 1)..Len(match_word) : match_word[j] # t]]

\* sum(c[i + 1] - c[i] - 1) over the sorted positions
SumInt(c) ==
    LET s == SortInts(c) IN SumSeq([i \in 1..(Len(s) - 1) |-> s[i + 1] - s[i] - 1])

\* ordered pairs of the original search_term sequence
PairsNum(search_term, position_dic) ==
    Cardinality({i \in 1..(Len(search_term) - 1) :
        /\ search_term[i] \in DOMAIN position_dic
        /\ search_term[i + 1] \in DOMAIN position_dic
        /\ position_dic[search_term[i]] < position_dic[search_term[i + 1]]})

\* update best, shorter or more order
BetterFewerPairs(sum_int, pairs_num, best) ==
    \/ RLess(Rat(sum_int, 1), best.best_distance)
    \/ REq(Rat(sum_int, 1), best.best_distance) /\ pairs_num < best.max_number

Better(sum_int, pairs_num, best) ==
    \/ RLess(Rat(sum_int, 1), best.best_distance)
    \/ REq(Rat(sum_int, 1), best.best_distance) /\ pairs_num > best.max_number

NoPosition == [t \in {} |-> 0]

RECURSIVE BestOf(_, _, _, _)
BestOf(search_term, match_word, combos, best) ==
    IF combos = <<>> THEN best
    ELSE LET c == Head(combos)
             position_dic == ZipDict(match_word, c)
             sum_int == SumInt(c)
             pairs_num == PairsNum(search_term, position_dic)
         IN  BestOf(search_term, match_word, Tail(combos),
                    IF Better(sum_int, pairs_num, best)
                    THEN [best_distance |-> Rat(sum_int, 1), max_number |-> pairs_num,
                          best_position |-> position_dic]
                    ELSE best)

Max(a, b) == IF a >= b THEN a ELSE b

\* avg_distance = best_distance / max(len(match_word) - 1, 1)
AvgDistanceNoDivide(best_distance, n) == best_distance

AvgDistance(best_distance, n) == RDivInt(best_distance, Max(n - 1, 1))

shortest_distance(search_term, position) ==
    LET InPosition(t) == t \in DOMAIN position
        match_word == SelectSeq(search_term, InPosition)
        match_list == [i \in 1..Len(match_word) |-> position[match_word[i]]]
    IN  IF match_word = <<>>
        THEN [avg_distance |-> Inf, pairs_num |-> 0, chosen |-> NoPosition]
        ELSE LET best == BestOf(search_term, match_word, Product(match_list),
                                [best_distance |-> Inf, max_number |-> -1,
                                 best_position |-> NoPosition])
             IN  [avg_distance |-> AvgDistance(best.best_distance, Len(match_word)),
                  pairs_num |-> best.max_number,
                  chosen |-> best.best_position]

-----------------------------------------------------------------------------
(* search.py: SearchEngine.search *)

ALPHA == 1
BETA == 1
\* GAMMA = 0.1
GAMMA == Rat(1, 10)

\* preprocess_sentence: the query's terms, duplicates removed, order kept
preprocess_sentence(tokens, seed) == DedupKeepOrder(tokenize_sentence(tokens, seed))

\* the (id, pos, line) records search() walks: for t in search_term, if t is a
\* key, its postings in order
WalkTerms(search_term, idx) ==
    Concat([i \in 1..Len(search_term) |->
        IF HasKey(idx, search_term[i])
        THEN [k \in 1..Len(idx[search_term[i]]) |->
                 [t |-> search_term[i], id |-> idx[search_term[i]][k][1],
                  pos |-> idx[search_term[i]][k][2], line |-> idx[search_term[i]][k][3]]]
        ELSE <<>>])

\* for t in self.inverted_index, instead of the query's terms
WalkAllTerms(search_term, idx) == WalkTerms(TermSeq, idx)

Walk(search_term, idx) == WalkTerms(search_term, idx)

\* match.items(): the document ids in order of first insertion
MatchIds(w) == DedupKeepOrder([k \in 1..Len(w) |-> w[k].id])

\* match[id]: its terms in order of first insertion, and term -> [(pos, line)]
MatchOf(w, id) ==
    LET Mine(r) == r.id = id
        mine == SelectSeq(w, Mine)
        keys == DedupKeepOrder([k \in 1..Len(mine) |-> mine[k].t])
    IN  [keys |-> keys,
         pos |-> [t \in Range(keys) |->
                    LET OfT(r) == r.t = t
                        rs == SelectSeq(mine, OfT)
                    IN  [k \in 1..Len(rs) |-> <<rs[k].pos, rs[k].line>>]]]

\* coverage = len(match_term) / len(search_term)
CoverageOfMatched(match_term, search_term) == Rat(Len(match_term), Len(match_term))

Coverage(match_term, search_term) == Rat(Len(match_term), Len(search_term))

\* score = ALPHA * coverage + BETA * cur_score + GAMMA * pairs_num
Score(coverage, cur_score, pairs_num) ==
    RAdd(RAdd(RMul(Rat(ALPHA, 1), coverage), RMul(Rat(BETA, 1), cur_score)),
         RMul(GAMMA, Rat(pairs_num, 1)))

\* the body of the loop over match.items(): one temp_rank entry, or the
\* ZeroDivisionError of 1 / (1 + avg_distance)
RankOne(search_term, w, id) ==
    LET m == MatchOf(w, id)
        match_term == m.keys
        coverage == Coverage(match_term, search_term)
    IN  IF Len(match_term) = 1
        THEN [id |-> id, error |-> "none", coverage |-> coverage, nmatch |-> 1,
              avg_distance |-> Rat(0, 1), cur_score |-> Rat(0, 1), pairs_num |-> 0,
              chosen |-> [t \in {match_term[1]} |-> m.pos[match_term[1]][1][1]],
              score |-> Score(coverage, Rat(0, 1), 0)]
        ELSE LET position == [t \in Range(match_term) |->
                                 [k \in 1..Len(m.pos[t]) |-> m.pos[t][k][1]]]
                 sd == shortest_distance(search_term, position)
                 den == RAdd(Rat(1, 1), sd.avg_distance)
                 zero == ~IsInf(den) /\ den.n = 0
                 cur_score == IF zero THEN Rat(0, 1) ELSE RInv(den)
             IN  [id |-> id, error |-> IF zero THEN "ZeroDivisionError" ELSE "none",
                  coverage |-> coverage, nmatch |-> Len(match_term),
                  avg_distance |-> sd.avg_distance, cur_score |-> cur_score,
                  pairs_num |-> sd.pairs_num, chosen |-> sd.chosen,
                  score |-> Score(coverage, cur_score, sd.pairs_num)]

\* temp_rank
RECURSIVE RankAll(_, _, _)
RankAll(search_term, w, ids) ==
    IF ids = <<>> THEN <<>>
    ELSE <<RankOne(search_term, w, Head(ids))>> \o RankAll(search_term, w, Tail(ids))

TempRank(search_term, idx) ==
    LET w == Walk(search_term, idx) IN RankAll(search_term, w, MatchIds(w))

\* remove duplicate keep the highest score: unique, as the list of its items
RECURSIVE Unique(_)
Unique(temp_rank) ==
    IF temp_rank = <<>> THEN <<>>
    ELSE LET u == Unique(SubSeq(temp_rank, 1, Len(temp_rank) - 1))
             e == temp_rank[Len(temp_rank)]
         IN  IF \A k \in 1..Len(u) : u[k].id # e.id THEN Append(u, e)
             ELSE [k \in 1..Len(u) |->
                      IF u[k].id = e.id /\ RLess(u[k].score, e.score) THEN e ELSE u[k]]

\* one entry per (term, document) hit, never merged
RankedUnsortedPerHit(temp_rank) ==
    Concat([k \in 1..Len(temp_rank) |-> [i \in 1..temp_rank[k].nmatch |-> temp_rank[k]]])

\* ranked before the sort: unique, as a list
RankedUnsorted(temp_rank) == Unique(temp_rank)

\* round(x, 10) keeps this many decimal digits
RoundDigits == 10

\* the decimal digits of rem / d after the point, k of them (rem < d)
RECURSIVE DecDigits(_, _, _)
DecDigits(rem, d, k) ==
    IF k = 0 THEN <<>> ELSE <<(rem * 10) \div d>> \o DecDigits((rem * 10) % d, d, k - 1)

RECURSIVE RemAfter(_, _, _)
RemAfter(rem, d, k) == IF k = 0 THEN rem ELSE RemAfter((rem * 10) % d, d, k - 1)

\* add one unit in the last place, carrying into the integer part (digs[1])
RECURSIVE CarryUp(_)
CarryUp(digs) ==
    IF Len(digs) = 1 THEN <<digs[1] + 1>>
    ELSE IF digs[Len(digs)] < 9 THEN [digs EXCEPT ![Len(digs)] = @ + 1]
    ELSE Append(CarryUp(SubSeq(digs, 1, Len(digs) - 1)), 0)

\* round(score, 10) of a score >= 0, as <<integer part, d1, ..., d10>>;
\* a tie goes to the even digit
Round10(x) ==
    LET digs == <<x.n \div x.d>> \o DecDigits(x.n % x.d, x.d, RoundDigits)
        rem == RemAfter(x.n % x.d, x.d, RoundDigits)
        up == 2 * rem > x.d \/ (2 * rem = x.d /\ digs[Len(digs)] % 2 = 1)
    IN  IF up THEN CarryUp(digs) ELSE digs

\* a < b for rounded scores
RECURSIVE DigLess(_, _)
DigLess(a, b) ==
    IF a = <<>> THEN FALSE
    ELSE IF Head(a) # Head(b) THEN Head(a) < Head(b)
    ELSE DigLess(Tail(a), Tail(b))

\* key = (-round(score, 10), int(id)), for an id that int() takes
SortKey(e) == [score |-> Round10(e.score), id |-> IntOf(e.id)]

\* key a < key b
KeyLess(a, b) ==
    \/ DigLess(b.score, a.score)
    \/ a.score = b.score /\ a.id < b.id

\* the key function raises ValueError: int(id) of an id that is no integer literal
SortRaises(ranked) == \E k \in 1..Len(ranked) : ~IntParses(ranked[k].id)

\* the ranks of the items of a list under a stable sort by the keys
RECURSIVE Places(_, _)
Places(keys, i) ==
    IF i > Len(keys) THEN <<>>
    ELSE <<1 + Cardinality({j \in 1..Len(keys) :
                \/ KeyLess(keys[j], keys[i])
                \/ ~KeyLess(keys[i], keys[j]) /\ j < i})>>
         \o Places(keys, i + 1)

RECURSIVE KeysOf(_)
KeysOf(ranked) ==
    IF ranked = <<>> THEN <<>> ELSE <<SortKey(Head(ranked))>> \o KeysOf(Tail(ranked))

\* list.sort(key = ...): stable
SortRanked(ranked) ==
    IF Len(ranked) <= 1 THEN ranked
    ELSE LET place == Places(KeysOf(ranked), 1)
         IN  [p \in 1..Len(ranked) |-> ranked[CHOOSE i \in 1..Len(ranked) : place[i] = p]]

\* sorted(a set of int)
RECURSIVE SortedSet(_)
SortedSet(S) ==
    IF S = {} THEN <<>>
    ELSE LET m == CHOOSE x \in S : \A y \in S : x <= y IN <<m>> \o SortedSet(S \ {m})

\* a printed line
IdLine(id, match_line) ==
    [kind |-> IF match_line THEN "> id" ELSE "id", id |-> id, text |-> <<>>]

TextLine(text) == [kind |-> "line", id |-> <<>>, text |-> text]

\* print_match: the lines it prints; docs is the doc/ folder of the index
print_match(id, chosen, idx, docs) ==
    IF id \notin DOMAIN docs \/ ~docs[id].isfile THEN <<>>
    ELSE LET lines == readlines(docs[id].text)
             line_id == {r[3] : r \in UNION {{idx[term][k] : k \in
                             {k \in 1..Len(idx[term]) :
                                 idx[term][k][1] = id /\ idx[term][k][2] = chosen[term]}}
                             : term \in DOMAIN chosen}}
             order == SortedSet(line_id)
             Valid(i) == 0 <= i /\ i < Len(lines)
             shown == SelectSeq(order, Valid)
         IN  [k \in 1..Len(shown) |->
                 LET line == lines[shown[k] + 1]
                 IN  TextLine(IF line[Len(line)] # LF THEN Append(line, LF) ELSE line)]

\* the output loop: what is printed, and whether the assertion fails
RECURSIVE Output(_, _, _, _, _, _)
Output(ranked, printed, out, match_line, idx, docs) ==
    IF ranked = <<>> THEN [out |-> out, raised |-> "none"]
    ELSE LET e == Head(ranked) IN
         IF e.id \in printed THEN [out |-> out, raised |-> "AssertionError"]
         ELSE Output(Tail(ranked), printed \cup {e.id},
                     Append(out, IdLine(e.id, match_line))
                        \o (IF match_line THEN print_match(e.id, e.chosen, idx, docs)
                            ELSE <<>>),
                     match_line, idx, docs)

NoResult ==
    [done |-> FALSE, search_term |-> <<>>, temp_rank |-> <<>>, ranked |-> <<>>,
     raised |-> "none", out |-> <<>>]

\* origin_query.startswith(">")
MatchLine(line) == line # <<>> /\ line[1] = ">"

\* search(origin_query): search_term, temp_rank, the list returned (ranked),
\* the exception raised and the lines printed
search(line, eng, docs) ==
    LET match_line == MatchLine(line)
        tokens == IF match_line THEN Tail(line) ELSE line
        search_term == preprocess_sentence(tokens, eng.seed)
        temp_rank == TempRank(search_term, eng.index)
        Failed(e) == e.error # "none"
        unsorted == RankedUnsorted(temp_rank)
        base == [NoResult EXCEPT !.done = TRUE, !.search_term = search_term]
    IN  IF search_term = <<>> THEN base
        ELSE IF SelectSeq(temp_rank, Failed) # <<>>
        THEN [base EXCEPT !.raised = "ZeroDivisionError"]
        ELSE IF SortRaises(unsorted)
        THEN [base EXCEPT !.temp_rank = temp_rank, !.raised = "ValueError"]
        ELSE LET ranked == SortRanked(unsorted)
                 o == Output(ranked, {}, <<>>, match_line, eng.index, docs)
             IN  [base EXCEPT !.temp_rank = temp_rank,
                              !.ranked = IF o.raised = "none" THEN ranked ELSE <<>>,
                              !.raised = o.raised, !.out = o.out]

-----------------------------------------------------------------------------
(* The state machine *)

NoEngine == [loaded |-> FALSE, index |-> EmptyIndex, seed |-> 0]

NoSDIn == [search_term |-> <<>>, position |-> NoPosition]

NoSD == [done |-> FALSE, avg_distance |-> Rat(0, 1), pairs_num |-> 0, chosen |-> NoPosition]

FileNames == {<<"2">>, <<"1", "0">>, <<"d", "o", "c", "1">>}

DocWords == {"quick", "fox", "leaves"}

QueryWords == {"quick", "fox", "leaves"}

ExampleDocs ==
    {<<"The", "quick", "brown", "fox">>, <<"u.s.", "42", ",", "x-ray", "fox-leaves">>}

File(text) == [isfile |-> TRUE, text |-> text]

Directory == [isfile |-> FALSE, text |-> <<>>]

EmptyFolder == [n \in {} |-> Directory]

WithEntry(folder, name, entry) ==
    [x \in DOMAIN folder \cup {name} |-> IF x = name THEN entry ELSE folder[x]]

\* the folders with entries under some of the names: files over the given
\* items with at most budget items in all, and the extra entries
RECURSIVE FoldersOver(_, _, _, _)
FoldersOver(names, items, extra, budget) ==
    IF names = {} THEN {EmptyFolder}
    ELSE LET n == CHOOSE x \in names : TRUE
             rest == names \ {n}
         IN  FoldersOver(rest, items, extra, budget)
             \cup UNION {{WithEntry(c, n, e) : c \in FoldersOver(rest, items, extra, budget)}
                         : e \in extra}
             \cup UNION {{WithEntry(c, n, File(d)) :
                             c \in FoldersOver(rest, items, extra, budget - Len(d))}
                         : d \in SeqsUpTo(items, budget)}

\* and the folders of one file that holds one of the documents of more
Folders(items, extra, more, budget) ==
    FoldersOver(FileNames, items, extra, budget)
    \cup UNION {[{n} -> {File(d) : d \in more}] : n \in FileNames}

\* python3 index.py corpus A
BuildA ==
    /\ ~indexA.built
    /\ indexA' = build_index(corpus, seedA)
    /\ UNCHANGED <<corpus, seedA, seedB, indexB, engine, query, res, sdIn, sdOut>>

\* python3 index.py corpus B
BuildB ==
    /\ ~indexB.built
    /\ indexB' = build_index(corpus, seedB)
    /\ UNCHANGED <<corpus, seedA, seedB, indexA, engine, query, res, sdIn, sdOut>>

\* python3 search.py A: SearchEngine(idx), load_index
Load ==
    /\ indexA.built
    /\ ~engine.loaded
    /\ \E seed \in HashSeeds :
           engine' = [loaded |-> TRUE, index |-> indexA.index, seed |-> seed]
    /\ UNCHANGED <<corpus, seedA, seedB, indexA, indexB, query, res, sdIn, sdOut>>

\* the files build_index copied under A/doc
DocFolder == [name \in {n \in DOMAIN corpus : corpus[n].isfile} |-> corpus[name]]

\* engine.search(line) for one line of stdin; search keeps nothing from one
\* query to the next, so one query per behaviour shows them all
Search(lines) ==
    /\ engine.loaded
    /\ ~res.done
    /\ \E line \in lines :
           /\ query' = line
           /\ res' = search(line, engine, DocFolder)
    /\ UNCHANGED <<corpus, seedA, seedB, indexA, indexB, engine, sdIn, sdOut>>

\* shortest_distance(search_term, position)
CallSD ==
    /\ ~sdOut.done
    /\ LET r == shortest_distance(sdIn.search_term, sdIn.position)
       IN  sdOut' = [done |-> TRUE, avg_distance |-> r.avg_distance,
                     pairs_num |-> r.pairs_num, chosen |-> r.chosen]
    /\ UNCHANGED <<corpus, seedA, seedB, indexA, indexB, engine, query, res, sdIn>>

Idle ==
    /\ indexA = NewFileProcess
    /\ indexB = NewFileProcess
    /\ engine = NoEngine
    /\ query = <<>>
    /\ res = NoResult

(* Ranking: documents of one line, queries without the preview marker *)

PlainLines == SeqsUpTo(QueryWords, MaxQueryLen)

Init ==
    /\ corpus \in Folders(DocWords, {}, ExampleDocs, MaxCorpusLen)
    /\ seedA \in HashSeeds
    /\ seedB = 0
    /\ Idle
    /\ sdIn = NoSDIn
    /\ sdOut = NoSD

Next == BuildA \/ Load \/ Search(PlainLines)

Spec == Init /\ [][Next]_vars

(* Preview: documents of several lines, queries with the preview marker *)

PreviewItems == {"fox", "leaves", LF, FF}

PreviewLines == {<<">">> \o q : q \in SeqsUpTo({"fox", "leaves"}, MaxQueryLen)}

InitPreview ==
    /\ corpus \in Folders(PreviewItems, {}, {}, MaxCorpusLen)
    /\ seedA \in HashSeeds
    /\ seedB = 0
    /\ Idle
    /\ sdIn = NoSDIn
    /\ sdOut = NoSD

NextPreview == BuildA \/ Load \/ Search(PreviewLines)

SpecPreview == InitPreview /\ [][NextPreview]_vars

(* Building: two runs of index.py over the same folder *)

BuildItems == {"fox", "leaves", LF}

InitBuild ==
    /\ corpus \in Folders(BuildItems, {Directory}, {}, MaxBuildLen)
    /\ seedA \in HashSeeds
    /\ seedB \in HashSeeds
    /\ Idle
    /\ sdIn = NoSDIn
    /\ sdOut = NoSD

NextBuild == BuildA \/ BuildB

SpecBuild == InitBuild /\ [][NextBuild]_vars

(* shortest_distance alone: a query of distinct terms, and a position map  *)
(* as search() builds it: each term's positions ascending, no position     *)
(* under two terms                                                         *)

SDTerms == {"quick", "fox", "leaf"}

Nowhere == "-"

PositionMap(a) ==
    [t \in {a[p] : p \in DOMAIN a} \ {Nowhere} |->
        SortedSet({p \in DOMAIN a : a[p] = t})]

InitSD ==
    /\ corpus = EmptyFolder
    /\ seedA = 0
    /\ seedB = 0
    /\ Idle
    /\ \E q \in SeqsUpTo(SDTerms, Cardinality(SDTerms)) \ {<<>>} :
       \E a \in [0..(MaxPos - 1) -> SDTerms \cup {Nowhere}] :
           /\ DedupKeepOrder(q) = q
           /\ sdIn = [search_term |-> q, position |-> PositionMap(a)]
    /\ sdOut = NoSD

NextSD == CallSD

SpecSD == InitSD /\ [][NextSD]_vars

-----------------------------------------------------------------------------
(* Properties *)

\* the combinations of one position per term of a position map
RECURSIVE CombosOver(_, _)
CombosOver(position, terms) ==
    IF terms = {} THEN {[t \in {} |-> 0]}
    ELSE LET u == CHOOSE t \in terms : TRUE
         IN  {[t \in DOMAIN f \cup {u} |-> IF t = u THEN p ELSE f[t]] :
                 f \in CombosOver(position, terms \ {u}), p \in Range(position[u])}

Combos(position) == CombosOver(position, DOMAIN position)

MaxOf(S) == CHOOSE x \in S : \A y \in S : y <= x

MinOf(S) == CHOOSE x \in S : \A y \in S : x <= y

\* the spread of a combination: the positions that lie strictly between its
\* first and its last and are not its own
SpreadOf(f) ==
    LET P == {f[t] : t \in DOMAIN f}
    IN  MaxOf(P) - MinOf(P) - (Cardinality(DOMAIN f) - 1)

MinSpread(position) ==
    IF DOMAIN position = {} THEN 0 ELSE MinOf({SpreadOf(f) : f \in Combos(position)})

\* adjacent pairs of the query whose terms are both chosen, in increasing position
OrderedPairs(Q, f) ==
    Cardinality({i \in 1..(Len(Q) - 1) :
        Q[i] \in DOMAIN f /\ Q[i + 1] \in DOMAIN f /\ f[Q[i]] < f[Q[i + 1]]})

MaxPairsAtMinSpread(Q, position) ==
    LET least == MinSpread(position)
    IN  MaxOf({OrderedPairs(Q, f) : f \in {g \in Combos(position) : SpreadOf(g) = least}})

\* the positions of a term in a document, in the order of the index
PositionsIn(idx, t, id) ==
    LET Mine(r) == r[1] = id
        rs == SelectSeq(idx[t], Mine)
    IN  [k \in 1..Len(rs) |-> rs[k][2]]

\* the terms of Q with a posting in the document
MatchedTerms(idx, Q, id) == {t \in Range(Q) : PositionsIn(idx, t, id) # <<>>}

DocIds(idx) == UNION {{idx[t][k][1] : k \in 1..Len(idx[t])} : t \in Terms}

PositionMapOf(idx, Q, id) ==
    [t \in MatchedTerms(idx, Q, id) |-> PositionsIn(idx, t, id)]

IdsOf(entries) == {entries[k].id : k \in 1..Len(entries)}

ExampleFolder(folder) ==
    \E n \in FileNames : folder = [x \in {n} |-> File(<<"The", "quick", "brown", "fox">>)]

\* C1: every document that matches a term of a non-empty Q gets one entry, with
\* score = 1.0 * coverage + 1.0 * proximity + 0.1 * orderedPairs, coverage =
\* (terms of Q with a posting in the document) / |Q|; one term matched:
\* proximity 0, orderedPairs 0, chosen its first posting position; two or
\* more: proximity = 1 / (1 + avgDistance), avgDistance = least spread /
\* (matched - 1), orderedPairs the most among the combinations of least
\* spread.  "The quick brown fox" queried with "quick fox": spread 1,
\* proximity 0.5, orderedPairs 1, score 1.6.
C1_ScoreFormula ==
    res.done /\ res.search_term # <<>> =>
        LET Q == res.search_term
            idx == engine.index
        IN  /\ IdsOf(res.temp_rank) = {d \in DocIds(idx) : MatchedTerms(idx, Q, d) # {}}
            /\ \A k \in 1..Len(res.temp_rank) :
                   LET e == res.temp_rank[k]
                       position == PositionMapOf(idx, Q, e.id)
                       m == Cardinality(DOMAIN position)
                       least == MinSpread(position)
                   IN  /\ REq(e.coverage, Rat(m, Len(Q)))
                       /\ REq(e.score,
                              RAdd(RAdd(e.coverage, e.cur_score), Rat(e.pairs_num, 10)))
                       /\ m = 1 =>
                              /\ REq(e.cur_score, Rat(0, 1))
                              /\ e.pairs_num = 0
                              /\ e.chosen = [t \in DOMAIN position |-> position[t][1]]
                       /\ m >= 2 =>
                              /\ REq(e.avg_distance, Rat(least, m - 1))
                              /\ REq(e.cur_score, Rat(m - 1, m - 1 + least))
                              /\ e.pairs_num = MaxPairsAtMinSpread(Q, position)
            /\ ExampleFolder(corpus) /\ query = <<"quick", "fox">> =>
                   /\ Len(res.temp_rank) = 1
                   /\ SpreadOf(res.temp_rank[1].chosen) = 1
                   /\ REq(res.temp_rank[1].cur_score, Rat(1, 2))
                   /\ res.temp_rank[1].pairs_num = 1
                   /\ REq(res.temp_rank[1].score, Rat(16, 10))

C1_Witness ==
    /\ res.done
    /\ ExampleFolder(corpus)
    /\ query = <<"quick", "fox">>
    /\ Len(res.temp_rank) = 1
    /\ REq(res.temp_rank[1].score, Rat(16, 10))

\* the document ids an output shows, in order
RECURSIVE PrintedIds(_)
PrintedIds(out) ==
    IF out = <<>> THEN <<>>
    ELSE (IF Head(out).kind = "line" THEN <<>> ELSE <<Head(out).id>>) \o PrintedIds(Tail(out))

\* a precedes b in ascending order of document id: as strings or, when both
\* are integer literals, as integers
IdAscending(a, b) ==
    StrLess(a, b) \/ (IntParses(a) /\ IntParses(b) /\ IntOf(a) < IntOf(b))

\* C2: search() returns and prints the matched documents by descending score
\* rounded to 10 decimals, and documents of equal rounded score by ascending
\* document id, whatever file names (strings) the documents have.
C2_RankedOrder ==
    res.done /\ res.temp_rank # <<>> =>
        /\ res.raised = "none"
        /\ IdsOf(res.ranked) = IdsOf(res.temp_rank)
        /\ PrintedIds(res.out) = [k \in 1..Len(res.ranked) |-> res.ranked[k].id]
        /\ \A i, j \in 1..Len(res.ranked) : i < j =>
               \/ DigLess(Round10(res.ranked[j].score), Round10(res.ranked[i].score))
               \/ /\ Round10(res.ranked[i].score) = Round10(res.ranked[j].score)
                  /\ IdAscending(res.ranked[i].id, res.ranked[j].id)

\* the same, for the folders whose file names are all integer literals
C2_RankedOrderNumericNames ==
    (\A n \in DOMAIN corpus : IntParses(n)) => C2_RankedOrder

\* C4: the ranked sequence holds each document id at most once, and the
\* assertion of the output loop does not fail.
C4_NoDuplicateIds ==
    res.done =>
        /\ res.raised # "AssertionError"
        /\ \A i, j \in 1..Len(res.ranked) : i # j => res.ranked[i].id # res.ranked[j].id
        /\ \A i, j \in 1..Len(PrintedIds(res.out)) :
               i # j => PrintedIds(res.out)[i] # PrintedIds(res.out)[j]

C4_Witness ==
    /\ res.done
    /\ Len(res.ranked) >= 2
    /\ \E k \in 1..Len(res.ranked) : res.ranked[k].nmatch >= 2

\* C7: search() returns the empty list, prints nothing and raises nothing when
\* Q is empty, and when Q is not empty and no term of Q is a key of the index.
C7_EmptyResult ==
    /\ res.done /\ preprocess_sentence(query, engine.seed) = <<>> =>
           res.ranked = <<>> /\ res.out = <<>> /\ res.raised = "none"
    /\ res.done /\ (\A t \in Range(res.search_term) : t \notin Keys(engine.index)) =>
           res.ranked = <<>> /\ res.out = <<>> /\ res.raised = "none"

C7_Witness ==
    /\ res.done
    /\ res.search_term # <<>>
    /\ Keys(engine.index) # {}
    /\ \A t \in Range(res.search_term) : t \notin Keys(engine.index)
    /\ res.ranked = <<>>

\* C10: no two postings of one document share a position (there are as many
\* distinct (document, position) pairs as postings); so for every
\* document with two or more matched terms the best spread is >= 0,
\* 1 + avgDistance is not zero and 0 < proximity <= 1.
C10_DistinctPositions ==
    /\ indexA.built =>
           Cardinality({<<p[1], p[2]>> : p \in UNION {Range(indexA.index[t]) : t \in Terms}})
               = SumSeq([i \in 1..Len(TermSeq) |-> Len(indexA.index[TermSeq[i]])])
    /\ res.done =>
           /\ res.raised # "ZeroDivisionError"
           /\ \A k \in 1..Len(res.temp_rank) :
                  LET e == res.temp_rank[k] IN
                  e.nmatch >= 2 =>
                      /\ SpreadOf(e.chosen) >= 0
                      /\ ~IsInf(e.avg_distance) /\ e.avg_distance.n >= 0
                      /\ ~REq(RAdd(Rat(1, 1), e.avg_distance), Rat(0, 1))
                      /\ RLess(Rat(0, 1), e.cur_score)
                      /\ ~RLess(Rat(1, 1), e.cur_score)

C10_Witness ==
    /\ res.done
    /\ indexA.index["leaf"] # <<>>
    /\ \E k \in 1..Len(res.temp_rank) :
           /\ res.temp_rank[k].nmatch >= 2
           /\ SpreadOf(res.temp_rank[k].chosen) > 0
           /\ RLess(res.temp_rank[k].cur_score, Rat(1, 1))

\* the terms of the query that the position map of the call holds
SDMatched == Range(sdIn.search_term) \cap DOMAIN sdIn.position

SDPosition == [t \in SDMatched |-> sdIn.position[t]]

SDSingle == \A t \in SDMatched : Len(sdIn.position[t]) = 1

\* the adjacent pairs of Q both matched, the earlier term's position the smaller
SDFixedPairs ==
    Cardinality({i \in 1..(Len(sdIn.search_term) - 1) :
        /\ sdIn.search_term[i] \in SDMatched
        /\ sdIn.search_term[i + 1] \in SDMatched
        /\ sdIn.position[sdIn.search_term[i]][1] < sdIn.position[sdIn.search_term[i + 1]][1]})

\* the spread of the positions when each matched term has one
SDFixedSpread == SpreadOf([t \in SDMatched |-> sdIn.position[t][1]])

\* C3 as claimed: when each matched term has exactly one position,
\* shortest_distance returns avgDistance equal to the spread of those
\* positions, and orderedPairs equal to the number of adjacent pairs of Q both
\* matched with the earlier term's position the smaller.
C3_AvgIsSpread ==
    sdOut.done /\ SDMatched # {} /\ SDSingle =>
        /\ REq(sdOut.avg_distance, Rat(SDFixedSpread, 1))
        /\ sdOut.pairs_num = SDFixedPairs

\* C3 amended: when at least one term is matched and each matched term has
\* exactly one position, avgDistance is the spread of those positions divided
\* by max(matched - 1, 1), and orderedPairs is as claimed.
C3_AvgIsSpreadPerGap ==
    sdOut.done /\ SDMatched # {} /\ SDSingle =>
        /\ REq(sdOut.avg_distance,
               Rat(SDFixedSpread, Max(Cardinality(SDMatched) - 1, 1)))
        /\ sdOut.pairs_num = SDFixedPairs
        /\ sdOut.chosen = [t \in SDMatched |-> sdIn.position[t][1]]

C3_Witness ==
    /\ sdOut.done
    /\ SDSingle
    /\ Cardinality(SDMatched) = 3
    /\ SDFixedSpread = 1
    /\ REq(sdOut.avg_distance, Rat(1, 2))
    /\ sdOut.pairs_num = 1

\* C9: with at least one matched term, the combination shortest_distance
\* returns takes one position per matched term, has the least spread of the
\* whole cross-product and, among the combinations of least spread, the most
\* ordered pairs; avgDistance is the least spread / max(matched - 1, 1).
C9_BestCombination ==
    sdOut.done /\ SDMatched # {} =>
        /\ sdOut.chosen \in Combos(SDPosition)
        /\ SpreadOf(sdOut.chosen) = MinSpread(SDPosition)
        /\ sdOut.pairs_num = OrderedPairs(sdIn.search_term, sdOut.chosen)
        /\ sdOut.pairs_num = MaxPairsAtMinSpread(sdIn.search_term, SDPosition)
        /\ REq(sdOut.avg_distance,
               Rat(MinSpread(SDPosition), Max(Cardinality(SDMatched) - 1, 1)))

C9_Witness ==
    /\ sdOut.done
    /\ Cardinality(SDMatched) >= 2
    /\ \E f, g \in Combos(SDPosition) :
           /\ SpreadOf(f) = MinSpread(SDPosition)
           /\ SpreadOf(g) = MinSpread(SDPosition)
           /\ OrderedPairs(sdIn.search_term, f) < OrderedPairs(sdIn.search_term, g)
    /\ \E f \in Combos(SDPosition) : SpreadOf(f) > MinSpread(SDPosition)
    /\ sdOut.pairs_num = MaxPairsAtMinSpread(sdIn.search_term, SDPosition)

\* C5: two runs of build_index over the same folder give the same index: the
\* same terms, and for every term the same postings in the same order.
C5_SameIndex ==
    indexA.built /\ indexB.built => indexA.index = indexB.index

Built == {fp \in {indexA, indexB} : fp.built}

\* C6: in every term's postings list the documents come in ascending order of
\* file name, and the postings of one document in order of occurrence:
\* positions strictly increasing, line numbers not decreasing.
C6_PostingOrder ==
    \A fp \in Built : \A t \in Terms :
    \A i, j \in 1..Len(fp.index[t]) : i < j =>
        LET p == fp.index[t][i]
            q == fp.index[t][j]
        IN  \/ StrLess(p[1], q[1])
            \/ p[1] = q[1] /\ p[2] < q[2] /\ p[3] <= q[3]

C6_Witness ==
    /\ indexA.built
    /\ \E i, j, k \in 1..Len(indexA.index["fox"]) :
           /\ i < j /\ j < k
           /\ indexA.index["fox"][i][1] # indexA.index["fox"][k][1]
           /\ \/ /\ indexA.index["fox"][i][1] = indexA.index["fox"][j][1]
                 /\ indexA.index["fox"][i][3] < indexA.index["fox"][j][3]
              \/ /\ indexA.index["fox"][j][1] = indexA.index["fox"][k][1]
                 /\ indexA.index["fox"][j][3] < indexA.index["fox"][k][3]

\* the line build_index recorded for a term's occurrence at a position
RecordedLines(idx, id, chosen) ==
    {r[3] : r \in UNION {{idx[t][k] : k \in {k \in 1..Len(idx[t]) :
                idx[t][k][1] = id /\ idx[t][k][2] = chosen[t]}} : t \in DOMAIN chosen}}

\* what a preview query is to print: after each ranked document id the lines
\* of the document, as build_index numbered them, that hold the chosen
\* occurrences, in ascending order, each once, each ended by a newline
RECURSIVE ExpectedPreview(_, _, _)
ExpectedPreview(ranked, idx, docs) ==
    IF ranked = <<>> THEN <<>>
    ELSE LET e == Head(ranked)
             source == splitlines(docs[e.id].text)
             ns == SortedSet(RecordedLines(idx, e.id, e.chosen))
         IN  <<IdLine(e.id, TRUE)>>
             \o [k \in 1..Len(ns) |-> TextLine(Append(source[ns[k] + 1], LF))]
             \o ExpectedPreview(Tail(ranked), idx, docs)

\* a line of readlines() without its line end
Chomp(line) ==
    IF line # <<>> /\ line[Len(line)] = LF THEN SubSeq(line, 1, Len(line) - 1) ELSE line

\* C8: for a query with the preview marker, search() prints after each ranked
\* document id exactly the source lines that hold the chosen occurrence of each
\* matched term, ascending, each once, each ended by a newline; print_match
\* numbers the lines of every document as file_index did.
C8_PreviewLines ==
    res.done /\ res.raised = "none" /\ MatchLine(query) =>
        /\ res.out = ExpectedPreview(res.ranked, engine.index, DocFolder)
        /\ \A k \in 1..Len(res.ranked) :
               LET text == DocFolder[res.ranked[k].id].text
               IN  [i \in 1..Len(readlines(text)) |-> Chomp(readlines(text)[i])]
                   = splitlines(text)

\* the same, for the documents whose only line end is "\n"
C8_PreviewLinesNoFormFeed ==
    (\A n \in DOMAIN corpus : FF \notin Range(corpus[n].text)) => C8_PreviewLines

=============================================================================
